---- MODULE Spec2Model ----
(***************************************************************************)
(* Scheduling and booking core of the availability checker: the Slot,      *)
(* Booking and Notification tables and the four service operations that    *)
(* write them (createSchedule, updateSchedule, deleteSchedule,             *)
(* bookAppointment), plus the confirmation of a booking, which no service  *)
(* of the repository performs and which therefore happens outside it.      *)
(*                                                                         *)
(* Rows are kept in sequences; a row's id is its index (autoincrement ids, *)
(* no operation modelled here removes a row).  Times are small naturals.   *)
(* A notification's message is kept as its kind (created, updated,         *)
(* cancelled); the times and the activity formatted into the text are      *)
(* left out, and so is createdAt.                                          *)
(*                                                                         *)
(* In SpecSchedule, SpecBooking, SpecLifecycle and SpecAvailability every  *)
(* request runs to completion before the next one starts and the store     *)
(* never fails.  SpecSchedule is the schedule operations on their own (no  *)
(* booking exists); SpecBooking is the life of bookings on slots that      *)
(* createSchedule made and updateSchedule never touched; SpecLifecycle is  *)
(* the four writing services together and SpecConfirmed adds the           *)
(* confirmation to them; SpecAvailability adds the two availability        *)
(* queries to SpecBooking.  SpecBookingRace runs bookAppointment requests  *)
(* side by side, one store call at a time, SpecCreateRace does so for      *)
(* createSchedule requests, and SpecCancelRace for a bookAppointment and a *)
(* deleteSchedule.  SpecStoreFailure follows one deleteSchedule request    *)
(* call by call and lets any of its store calls raise; SpecCreateFailure   *)
(* does the same for one createSchedule request.                           *)
(***************************************************************************)
EXTENDS Integers, Sequences, FiniteSets

VARIABLES slots, bookings, notifications, resp, inflight

vars == <<slots, bookings, notifications, resp, inflight>>

(* ------------------------------ bounds ------------------------------- *)

\* Cap on the Slot table.
MaxSlots == 2
\* Cap on the Booking table.
MaxBookings == 2
\* Cap on the Notification table.
MaxNotifications == 3

\* Time values a request may carry.
Times == {0, 1}
\* Rows of the Professional table (no service creates or deletes one).
Professionals == {1, 2}
\* Professional ids a request may carry: 3 references no professional.
ProfessionalIds == {1, 2, 3}
\* User ids a booking request may carry.
Users == {1, 2}
Activities == {"checkup"}

(* ------------------------------ enums -------------------------------- *)

Role == {"ADMIN", "PROFESSIONAL", "REGISTERED_USER", "GUEST"}
BookingStatus == {"PENDING", "CONFIRMED", "CANCELLED"}

(* --------------------------- store queries --------------------------- *)

\* Slot.prisma().find_unique(where={"id": id}) finds a row
SlotExists(id) == id \in DOMAIN slots

\* the professional lookup answering for every id (the check is skipped)
ProfessionalFound_Always(professionalId) == TRUE

\* Professional.prisma().find_unique(where={"id": professionalId}) finds a row
ProfessionalFound(professionalId) == professionalId \in Professionals

\* the overlap query with strict comparisons (lt, gt for lte, gte)
Conflicts_Strict(slot, professionalId, startTime, endTime) ==
    /\ slot.professionalId = professionalId
    /\ slot.startTime < endTime
    /\ slot.endTime > startTime

\* the overlap query asking only whether the new start lies in the slot
Conflicts_StartInside(slot, professionalId, startTime, endTime) ==
    /\ slot.professionalId = professionalId
    /\ slot.startTime <= startTime
    /\ slot.endTime >= startTime

\* the overlap query restricted to active slots
Conflicts_ActiveOnly(slot, professionalId, startTime, endTime) ==
    /\ slot.professionalId = professionalId
    /\ slot.isActive
    /\ slot.startTime <= endTime
    /\ slot.endTime >= startTime

\* where-clause of the overlap query of createSchedule, on one slot row
Conflicts(slot, professionalId, startTime, endTime) ==
    /\ slot.professionalId = professionalId
    /\ slot.startTime <= endTime
    /\ slot.endTime >= startTime

\* existing_slots: ids of the rows the overlap query returns
existing_slots(professionalId, startTime, endTime) ==
    {i \in DOMAIN slots : Conflicts(slots[i], professionalId, startTime, endTime)}

\* ids of the bookings attached to a slot (slot.bookings, find_many by slotId)
SlotBookings(slotId) == {b \in DOMAIN bookings : bookings[b].slotId = slotId}

\* the orders in which a find_many without order_by may return the rows S
Orders(S) ==
    {f \in [1..Cardinality(S) -> S] : \A i, j \in 1..Cardinality(S) : i # j => f[i] # f[j]}

(* ------------------------- notification rows ------------------------- *)

CreatedMessage(startTime, endTime) == "New schedule created"
UpdatedMessage(activity, startTime, endTime) == "Schedule updated"
CancelledMessage(startTime) == "Booking cancelled"

NewNotification(userId, message) == [userId |-> userId, message |-> message, read |-> FALSE]

(* ------------------------------ responses ---------------------------- *)

\* resp is what the last request returned.  error is "" when the service
\* returned a value, and the exception's text when it raised (the endpoint
\* then answers 500 with that text and none of the response's fields).
NoResponse == [op |-> "none", error |-> ""]

CreateScheduleResponse(scheduleId, professionalId, wasNotificationSent, isActive) ==
    [op |-> "createSchedule", error |-> "", scheduleId |-> scheduleId,
     professionalId |-> professionalId, wasNotificationSent |-> wasNotificationSent,
     isActive |-> isActive]

CreateScheduleError(text) ==
    [op |-> "createSchedule", error |-> text, scheduleId |-> 0, professionalId |-> 0,
     wasNotificationSent |-> FALSE, isActive |-> FALSE]

UpdateScheduleResponse(updated, scheduleId, notification) ==
    [op |-> "updateSchedule", error |-> "", updated |-> updated, scheduleId |-> scheduleId,
     notification |-> notification]

DeleteScheduleResponse(success, message) ==
    [op |-> "deleteSchedule", error |-> "", success |-> success, message |-> message]

\* bookingId 0 stands for None
BookingResponse(bookingId, status, message) ==
    [op |-> "bookAppointment", error |-> "", bookingId |-> bookingId, status |-> status,
     message |-> message]

\* availability is the status the two availability services return
AvailabilityResponse(op, availability) ==
    [op |-> op, error |-> "", availability |-> availability]

\* the endpoint answering a raised exception as a success
ErrorResponse_Swallowed(op, text) == [op |-> op, error |-> "", success |-> TRUE]

\* what an endpoint answers (status 500) when the service raised: the
\* exception's text and none of the response's fields
ErrorResponse(op, text) == [op |-> op, error |-> text]

(* ---------------------------- createSchedule ------------------------- *)

\* the Slot row created with the active flag forced to true
NewSlot_AlwaysActive(professionalId, startTime, endTime, isActive) ==
    [professionalId |-> professionalId, startTime |-> startTime, endTime |-> endTime,
     isActive |-> TRUE]

\* data of Slot.prisma().create
NewSlot(professionalId, startTime, endTime, isActive) ==
    [professionalId |-> professionalId, startTime |-> startTime, endTime |-> endTime,
     isActive |-> isActive]

createSchedule(professionalId, startTime, endTime, activityType, isActive) ==
    IF ~ProfessionalFound(professionalId)
    THEN /\ resp' = CreateScheduleError("Professional with the given ID does not exist")
         /\ UNCHANGED <<slots, bookings, notifications>>
    ELSE IF existing_slots(professionalId, startTime, endTime) # {}
    THEN /\ resp' = CreateScheduleError("This time slot conflicts with an existing schedule.")
         /\ UNCHANGED <<slots, bookings, notifications>>
    ELSE /\ Len(slots) < MaxSlots
         /\ Len(notifications) < MaxNotifications
         /\ slots' = Append(slots, NewSlot(professionalId, startTime, endTime, isActive))
         /\ notifications' = Append(notifications,
                NewNotification(professionalId, CreatedMessage(startTime, endTime)))
         /\ resp' = CreateScheduleResponse(Len(slots) + 1, professionalId, TRUE, isActive)
         /\ UNCHANGED bookings

(* ---------------------------- updateSchedule ------------------------- *)

\* the notification returned when the update affected no row
PlaceholderNotification == [id |-> 0, userId |-> 0, message |-> "", read |-> FALSE]

\* the slot row after an update that leaves the owner as it was
UpdatedSlot_KeepsOwner(slot, startTime, endTime, professionalId) ==
    [slot EXCEPT !.startTime = startTime, !.endTime = endTime]

\* the slot row after an update that also sets the active flag
UpdatedSlot_Reactivates(slot, startTime, endTime, professionalId) ==
    [slot EXCEPT !.startTime = startTime, !.endTime = endTime,
                 !.professionalId = professionalId, !.isActive = TRUE]

\* data of Slot.prisma().update applied to the row
UpdatedSlot(slot, startTime, endTime, professionalId) ==
    [slot EXCEPT !.startTime = startTime, !.endTime = endTime,
                 !.professionalId = professionalId]

\* the update's notification addressed to the slot's previous owner
UpdatedNotification_PreviousOwner(scheduleId, professionalId, activity, startTime, endTime) ==
    NewNotification(slots[scheduleId].professionalId,
                    UpdatedMessage(activity, startTime, endTime))

\* data of Notification.prisma().create in updateSchedule
UpdatedNotification(scheduleId, professionalId, activity, startTime, endTime) ==
    NewNotification(professionalId, UpdatedMessage(activity, startTime, endTime))

\* updateSchedule creating its notification whether or not a row was updated
updateSchedule_NotifiesAnyway(scheduleId, startTime, endTime, professionalId, activity) ==
    LET notification ==
            UpdatedNotification(scheduleId, professionalId, activity, startTime, endTime)
    IN  /\ Len(notifications) < MaxNotifications
        /\ notifications' = Append(notifications, notification)
        /\ slots' = IF SlotExists(scheduleId)
                    THEN [slots EXCEPT ![scheduleId] =
                             UpdatedSlot(@, startTime, endTime, professionalId)]
                    ELSE slots
        /\ resp' = UpdateScheduleResponse(SlotExists(scheduleId), scheduleId,
                       [id |-> Len(notifications) + 1, userId |-> notification.userId,
                        message |-> notification.message, read |-> notification.read])
        /\ UNCHANGED bookings

updateSchedule(scheduleId, startTime, endTime, professionalId, activity) ==
    IF SlotExists(scheduleId)
    THEN LET notification ==
                 UpdatedNotification(scheduleId, professionalId, activity, startTime, endTime)
         IN  /\ Len(notifications) < MaxNotifications
             /\ slots' = [slots EXCEPT ![scheduleId] =
                             UpdatedSlot(@, startTime, endTime, professionalId)]
             /\ notifications' = Append(notifications, notification)
             /\ resp' = UpdateScheduleResponse(TRUE, scheduleId,
                            [id |-> Len(notifications) + 1, userId |-> notification.userId,
                             message |-> notification.message, read |-> notification.read])
             /\ UNCHANGED bookings
    ELSE /\ resp' = UpdateScheduleResponse(FALSE, scheduleId, PlaceholderNotification)
         /\ UNCHANGED <<slots, bookings, notifications>>

(* ---------------------------- deleteSchedule ------------------------- *)

\* the role test letting registered users through as well
AllowedRoles_WithRegistered == {"ADMIN", "PROFESSIONAL", "REGISTERED_USER"}

\* the roles deleteSchedule lets through
AllowedRoles == {"ADMIN", "PROFESSIONAL"}

\* what deleteSchedule returns for a role outside AllowedRoles
DeniedResponse == DeleteScheduleResponse(FALSE, "Request denied: unauthorized role.")

\* a missing schedule answered as a deletion that succeeded
NoSuchScheduleResponse_Success ==
    DeleteScheduleResponse(TRUE, "Schedule successfully deleted.")

\* what deleteSchedule returns when the schedule id references no slot
NoSuchScheduleResponse == DeleteScheduleResponse(FALSE, "No such schedule exists.")

\* the loop writing the wrong member of BookingStatus
CancelledStatus_Confirmed == "CONFIRMED"

\* the loop writing PENDING
CancelledStatus_Pending == "PENDING"

\* the status deleteSchedule writes to every booking of the slot
CancelledStatus == "CANCELLED"

\* the loop addressing every notice to the user of the first booking
CancelNotifications_FirstUser(order, startTime) ==
    [i \in DOMAIN order |->
        NewNotification(bookings[order[1]].userId, CancelledMessage(startTime))]

\* the loop notifying only about bookings that were not CANCELLED already
CancelNotifications_SkipsCancelled(order, startTime) ==
    LET fresh == SelectSeq(order, LAMBDA b : bookings[b].status # "CANCELLED")
    IN  [i \in DOMAIN fresh |->
            NewNotification(bookings[fresh[i]].userId, CancelledMessage(startTime))]

\* the notifications of the cancel-and-notify loop, for the bookings in the
\* order the loop visits them
CancelNotifications(order, startTime) ==
    [i \in DOMAIN order |->
        NewNotification(bookings[order[i]].userId, CancelledMessage(startTime))]

\* the final write removing the row instead of clearing its flag
DeactivatedSlots_RowRemoved(scheduleId) ==
    SubSeq(slots, 1, scheduleId - 1) \o SubSeq(slots, scheduleId + 1, Len(slots))

\* the Slot table after Slot.prisma().update(data={"isActive": False})
DeactivatedSlots(scheduleId) == [slots EXCEPT ![scheduleId].isActive = FALSE]

deleteSchedule(scheduleId, requesterRole) ==
    IF requesterRole \notin AllowedRoles
    THEN /\ resp' = DeniedResponse
         /\ UNCHANGED <<slots, bookings, notifications>>
    ELSE IF ~SlotExists(scheduleId)
    THEN /\ resp' = NoSuchScheduleResponse
         /\ UNCHANGED <<slots, bookings, notifications>>
    ELSE /\ Len(notifications) + Cardinality(SlotBookings(scheduleId)) <= MaxNotifications
         /\ \E order \in Orders(SlotBookings(scheduleId)) :
               notifications' = notifications \o
                                CancelNotifications(order, slots[scheduleId].startTime)
         /\ bookings' = [b \in DOMAIN bookings |->
                            IF b \in SlotBookings(scheduleId)
                            THEN [bookings[b] EXCEPT !.status = CancelledStatus]
                            ELSE bookings[b]]
         /\ slots' = DeactivatedSlots(scheduleId)
         /\ resp' = DeleteScheduleResponse(TRUE, "Schedule successfully deleted.")

(* ---------------------------- bookAppointment ------------------------ *)

InvalidSlotMessage ==
    "Slot is not valid, not active, or does not belong to the specified professional."
AlreadyConfirmedMessage == "Slot is already confirmed for another booking."
PendingMessage == "Booking is pending and awaiting confirmation."

\* the validity test without the isActive condition
InvalidSlot_IgnoresActive(professionalId, slotId) ==
    \/ ~SlotExists(slotId)
    \/ slots[slotId].professionalId # professionalId

\* the slot is missing, inactive, or owned by another professional
InvalidSlot(professionalId, slotId) ==
    \/ ~SlotExists(slotId)
    \/ ~slots[slotId].isActive
    \/ slots[slotId].professionalId # professionalId

\* the test comparing with a string that is no member of BookingStatus
HasConfirmed_WrongCase(slotId) ==
    \E b \in SlotBookings(slotId) : bookings[b].status = "confirmed"

\* the test comparing with PENDING
HasConfirmed_Pending(slotId) ==
    \E b \in SlotBookings(slotId) : bookings[b].status = "PENDING"

\* some booking attached to the slot has status CONFIRMED
HasConfirmed(slotId) == \E b \in SlotBookings(slotId) : bookings[b].status = "CONFIRMED"

\* the booking created as CONFIRMED
NewBooking_Confirmed(userId, slotId) ==
    [userId |-> userId, slotId |-> slotId, status |-> "CONFIRMED"]

\* the row bookAppointment creates
NewBooking(userId, slotId) == [userId |-> userId, slotId |-> slotId, status |-> "PENDING"]

\* bookAppointment telling the user about the pending booking
bookAppointment_Notifies(userId, professionalId, slotId) ==
    IF InvalidSlot(professionalId, slotId)
    THEN /\ resp' = BookingResponse(0, "failed", InvalidSlotMessage)
         /\ UNCHANGED <<slots, bookings, notifications>>
    ELSE IF HasConfirmed(slotId)
    THEN /\ resp' = BookingResponse(0, "failed", AlreadyConfirmedMessage)
         /\ UNCHANGED <<slots, bookings, notifications>>
    ELSE /\ Len(bookings) < MaxBookings
         /\ Len(notifications) < MaxNotifications
         /\ bookings' = Append(bookings, NewBooking(userId, slotId))
         /\ notifications' = Append(notifications, NewNotification(userId, PendingMessage))
         /\ resp' = BookingResponse(Len(bookings) + 1, "pending", PendingMessage)
         /\ UNCHANGED slots

bookAppointment(userId, professionalId, slotId) ==
    IF InvalidSlot(professionalId, slotId)
    THEN /\ resp' = BookingResponse(0, "failed", InvalidSlotMessage)
         /\ UNCHANGED <<slots, bookings, notifications>>
    ELSE IF HasConfirmed(slotId)
    THEN /\ resp' = BookingResponse(0, "failed", AlreadyConfirmedMessage)
         /\ UNCHANGED <<slots, bookings, notifications>>
    ELSE /\ Len(bookings) < MaxBookings
         /\ bookings' = Append(bookings, NewBooking(userId, slotId))
         /\ resp' = BookingResponse(Len(bookings) + 1, "pending", PendingMessage)
         /\ UNCHANGED <<slots, notifications>>

(* ------------------- confirmation, outside the services -------------- *)

\* A PENDING booking is set to CONFIRMED by something other than the
\* services (no service writes that status); nothing is returned to a caller.
confirmBooking(bookingId) ==
    /\ bookingId \in DOMAIN bookings
    /\ bookings[bookingId].status = "PENDING"
    /\ bookings' = [bookings EXCEPT ![bookingId].status = "CONFIRMED"]
    /\ UNCHANGED <<slots, notifications, resp>>

(* --------------------------- checkAvailability ----------------------- *)

\* specialty of each Professional row
Specialty == [p \in Professionals |-> IF p = 1 THEN "cardiology" ELSE "dermatology"]

\* The optional parameters of a query.  A professional id of 0 and an empty
\* specialty are what `if professionalId:` and `if specialty:` take for
\* absent; a date is absent as <<>> and present as <<t>> (a datetime is
\* always true).
OptionalProfessionalIds == {0} \cup ProfessionalIds
OptionalTimes == {<<>>} \cup {<<tm>> : tm \in Times}
OptionalSpecialties == {"", "cardiology"}

\* the keys a where clause on Slot may carry: the model's fields and the
\* boolean combinators; the store rejects a query carrying any other key
SlotWhereFields ==
    {"id", "startTime", "endTime", "professionalId", "isActive", "bookings",
     "professional", "AND", "OR", "NOT"}

\* keys of query_conditions as checkAvailability builds it
query_conditions(professionalId, startDate, endDate, specialty) ==
    {"isActive"}
    \cup (IF professionalId # 0 THEN {"professionalId"} ELSE {})
    \cup (IF specialty # "" THEN {"professional__specialty"} ELSE {})
    \cup (IF startDate # <<>> THEN {"startTime__gte"} ELSE {})
    \cup (IF endDate # <<>> THEN {"endTime__lte"} ELSE {})

\* the query without the isActive condition
ActiveSlotsOf_IncludesInactive(professionalId) ==
    {i \in DOMAIN slots :
        professionalId # 0 => slots[i].professionalId = professionalId}

\* ids of the rows find_many returns for the keys the store accepts
ActiveSlotsOf(professionalId) ==
    {i \in DOMAIN slots :
        /\ slots[i].isActive
        /\ professionalId # 0 => slots[i].professionalId = professionalId}

\* the slot has no booking, or every booking of it is CANCELLED
Unbooked(slotId) ==
    \/ SlotBookings(slotId) = {}
    \/ \A b \in SlotBookings(slotId) : bookings[b].status = "CANCELLED"

\* availability_status after the for-else over the returned slots
availability_status(found) ==
    IF \E i \in found : Unbooked(i) THEN "available"
    ELSE IF \E i \in found : SlotBookings(i) # {} THEN "busy"
    ELSE "unavailable"

checkAvailability(professionalId, startDate, endDate, specialty) ==
    /\ resp' = IF query_conditions(professionalId, startDate, endDate, specialty)
                     \subseteq SlotWhereFields
               THEN AvailabilityResponse("checkAvailability",
                        availability_status(ActiveSlotsOf(professionalId)))
               ELSE ErrorResponse("checkAvailability", "Field does not exist on enclosing type")
    /\ UNCHANGED <<slots, bookings, notifications>>

(* ---------------------- getProfessionalAvailability ------------------ *)

\* The request model declares no field: whatever the caller sent, the
\* object the service receives has none.
FetchAvailabilityRequest == {<<>>}

\* rows of the query for a professional: active, started or not yet ended
upcoming_and_current_slots(professionalId, current_time) ==
    {i \in DOMAIN slots :
        /\ slots[i].professionalId = professionalId
        /\ slots[i].isActive
        /\ \/ slots[i].startTime <= current_time
           \/ slots[i].endTime > current_time}

\* no slot of the query result that contains current_time has a CONFIRMED booking
currently_available(professionalId, current_time) ==
    \A i \in upcoming_and_current_slots(professionalId, current_time) :
        (slots[i].startTime <= current_time /\ current_time < slots[i].endTime)
            => ~HasConfirmed(i)

\* reading request.professional_id raises AttributeError when the request
\* object has no such attribute
getProfessionalAvailability(request, current_time) ==
    /\ resp' = IF "professional_id" \in DOMAIN request
               THEN AvailabilityResponse("getProfessionalAvailability",
                        IF currently_available(request.professional_id, current_time)
                        THEN "available" ELSE "busy")
               ELSE ErrorResponse("getProfessionalAvailability",
                        "'FetchAvailabilityRequest' object has no attribute 'professional_id'")
    /\ UNCHANGED <<slots, bookings, notifications>>

(* ------------------------ requests in progress ---------------------- *)

\* The handlers that run a request one store call at a time.  Each runs at
\* most one request; inflight[c] is the handler's position and its locals.
Handlers == {1, 2}

Idle == [pc |-> "idle"]

\* no handler has taken a request yet
NoneStarted == \A c \in Handlers : inflight[c] = Idle

\* the handlers take their requests in the order of their numbers
NextToStart(c) == \A d \in Handlers : d < c => inflight[d] # Idle

(* bookAppointment, one store call at a time *)

\* find_unique with the bookings included, and the two tests on what it
\* returned; slot_bookings is the slot.bookings of that read
bookAppointment_find_slot(c, userId, professionalId, slotId) ==
    /\ inflight[c] = Idle
    /\ inflight' = [inflight EXCEPT ![c] =
           IF InvalidSlot(professionalId, slotId)
           THEN [pc |-> "done", result |-> BookingResponse(0, "failed", InvalidSlotMessage)]
           ELSE IF HasConfirmed(slotId)
           THEN [pc |-> "done",
                 result |-> BookingResponse(0, "failed", AlreadyConfirmedMessage)]
           ELSE [pc |-> "create_booking", userId |-> userId, slotId |-> slotId,
                 slot_bookings |-> SlotBookings(slotId)]]
    /\ UNCHANGED <<slots, bookings, notifications, resp>>

\* a deleteSchedule request for the slot has read the slot's bookings: one
\* is past its find_many, or one has marked the slot inactive
DeleteHasRead(slotId) ==
    \/ ~slots[slotId].isActive
    \/ \E d \in Handlers :
          /\ inflight[d].pc \in {"update_booking", "create_notification", "update_slot"}
          /\ inflight[d].scheduleId = slotId

\* the create written as a conditional write that tests the slot again
bookAppointment_create_booking_Rechecks(c) ==
    /\ inflight[c].pc = "create_booking"
    /\ Len(bookings) < MaxBookings
    /\ IF HasConfirmed(inflight[c].slotId)
       THEN /\ bookings' = bookings
            /\ inflight' = [inflight EXCEPT ![c] =
                   [pc |-> "done",
                    result |-> BookingResponse(0, "failed", AlreadyConfirmedMessage)]]
       ELSE /\ bookings' = Append(bookings, NewBooking(inflight[c].userId, inflight[c].slotId))
            /\ inflight' = [inflight EXCEPT ![c] =
                   [pc |-> "done",
                    result |-> BookingResponse(Len(bookings) + 1, "pending", PendingMessage),
                    slotId |-> inflight[c].slotId,
                    slot_bookings |-> inflight[c].slot_bookings,
                    confirmed_at_create |-> FALSE,
                    deleted_at_create |-> DeleteHasRead(inflight[c].slotId)]]
    /\ UNCHANGED <<slots, notifications, resp>>

\* Booking.prisma().create and the return.  confirmed_at_create records
\* whether the slot had a CONFIRMED booking when the row was written, and
\* deleted_at_create whether a deleteSchedule had read the slot's bookings.
bookAppointment_create_booking(c) ==
    /\ inflight[c].pc = "create_booking"
    /\ Len(bookings) < MaxBookings
    /\ bookings' = Append(bookings, NewBooking(inflight[c].userId, inflight[c].slotId))
    /\ inflight' = [inflight EXCEPT ![c] =
           [pc |-> "done",
            result |-> BookingResponse(Len(bookings) + 1, "pending", PendingMessage),
            slotId |-> inflight[c].slotId,
            slot_bookings |-> inflight[c].slot_bookings,
            confirmed_at_create |-> HasConfirmed(inflight[c].slotId),
            deleted_at_create |-> DeleteHasRead(inflight[c].slotId)]]
    /\ UNCHANGED <<slots, notifications, resp>>

(* deleteSchedule, one store call at a time; pc names the call to make next *)

\* the role test, before any store call
deleteSchedule_begin(c, scheduleId, requesterRole) ==
    /\ inflight[c] = Idle
    /\ inflight' = [inflight EXCEPT ![c] =
           IF requesterRole \notin AllowedRoles
           THEN [pc |-> "done", result |-> DeniedResponse]
           ELSE [pc |-> "find_slot", scheduleId |-> scheduleId]]
    /\ UNCHANGED <<slots, bookings, notifications, resp>>

\* Slot.prisma().find_unique; slot is the row it returned
deleteSchedule_find_slot(c) ==
    /\ inflight[c].pc = "find_slot"
    /\ inflight' = [inflight EXCEPT ![c] =
           IF ~SlotExists(inflight[c].scheduleId)
           THEN [pc |-> "done", result |-> NoSuchScheduleResponse]
           ELSE [pc |-> "find_bookings", scheduleId |-> inflight[c].scheduleId,
                 slot |-> slots[inflight[c].scheduleId], found |-> {}, todo |-> <<>>,
                 cancelled |-> {}, notified |-> {}]]
    /\ UNCHANGED <<slots, bookings, notifications, resp>>

\* Booking.prisma().find_many; found is the rows it returned and todo the
\* part of that list the loop has still to walk
deleteSchedule_find_bookings(c) ==
    /\ inflight[c].pc = "find_bookings"
    /\ \E order \in Orders(SlotBookings(inflight[c].scheduleId)) :
          inflight' = [inflight EXCEPT ![c].found = SlotBookings(inflight[c].scheduleId),
                                       ![c].todo = order,
                                       ![c].pc = IF order = <<>> THEN "update_slot"
                                                 ELSE "update_booking"]
    /\ UNCHANGED <<slots, bookings, notifications, resp>>

\* the loop's body written with the notification before the update: the
\* booking is left as it is when its notification is made
deleteSchedule_update_booking_NotifiesFirst(c) ==
    /\ inflight[c].pc = "update_booking"
    /\ inflight' = [inflight EXCEPT ![c].pc = "create_notification"]
    /\ UNCHANGED <<slots, bookings, notifications, resp>>

\* Booking.prisma().update of the loop's current booking
deleteSchedule_update_booking(c) ==
    /\ inflight[c].pc = "update_booking"
    /\ bookings' = [bookings EXCEPT ![Head(inflight[c].todo)].status = CancelledStatus]
    /\ inflight' = [inflight EXCEPT ![c].pc = "create_notification",
                                    ![c].cancelled = @ \cup {Head(inflight[c].todo)}]
    /\ UNCHANGED <<slots, notifications, resp>>

\* the loop left after its first booking
deleteSchedule_create_notification_StopsAfterFirst(c) ==
    /\ inflight[c].pc = "create_notification"
    /\ Len(notifications) < MaxNotifications
    /\ notifications' = Append(notifications,
           NewNotification(bookings[Head(inflight[c].todo)].userId,
                           CancelledMessage(inflight[c].slot.startTime)))
    /\ inflight' = [inflight EXCEPT ![c].todo = <<>>,
                                    ![c].notified = @ \cup {Head(inflight[c].todo)},
                                    ![c].pc = "update_slot"]
    /\ UNCHANGED <<slots, bookings, resp>>

\* Notification.prisma().create for the loop's current booking; notified
\* records the bookings whose notification has been created
deleteSchedule_create_notification(c) ==
    /\ inflight[c].pc = "create_notification"
    /\ Len(notifications) < MaxNotifications
    /\ notifications' = Append(notifications,
           NewNotification(bookings[Head(inflight[c].todo)].userId,
                           CancelledMessage(inflight[c].slot.startTime)))
    /\ inflight' = [inflight EXCEPT ![c].todo = Tail(@),
                                    ![c].notified = @ \cup {Head(inflight[c].todo)},
                                    ![c].pc = IF Tail(inflight[c].todo) = <<>>
                                              THEN "update_slot" ELSE "update_booking"]
    /\ UNCHANGED <<slots, bookings, resp>>

\* Slot.prisma().update and the return
deleteSchedule_update_slot(c) ==
    /\ inflight[c].pc = "update_slot"
    /\ slots' = DeactivatedSlots(inflight[c].scheduleId)
    /\ inflight' = [inflight EXCEPT ![c] =
           [pc |-> "done",
            result |-> DeleteScheduleResponse(TRUE, "Schedule successfully deleted.")]]
    /\ UNCHANGED <<bookings, notifications, resp>>

\* The store call the handler was about to make raises: nothing is written,
\* the exception leaves deleteSchedule (which catches nothing) and the
\* endpoint answers it.  A call that found no row has no slot or cancelled.
deleteSchedule_raise(c) ==
    /\ inflight[c].pc \in {"find_slot", "find_bookings", "update_booking",
                           "create_notification", "update_slot"}
    /\ inflight' = [inflight EXCEPT ![c] =
           IF inflight[c].pc = "find_slot"
           THEN [pc |-> "failed", result |-> ErrorResponse("deleteSchedule", "store failure"),
                 scheduleId |-> inflight[c].scheduleId, cancelled |-> {}]
           ELSE [pc |-> "failed", result |-> ErrorResponse("deleteSchedule", "store failure"),
                 scheduleId |-> inflight[c].scheduleId, cancelled |-> inflight[c].cancelled,
                 slot |-> inflight[c].slot]]
    /\ UNCHANGED <<slots, bookings, notifications, resp>>

(* createSchedule, one store call at a time; pc names the call to make next *)

\* the request reaches the service: its fields are the handler's locals
createSchedule_begin(c, professionalId, startTime, endTime, activityType, isActive) ==
    /\ inflight[c] = Idle
    /\ inflight' = [inflight EXCEPT ![c] =
           [pc |-> "find_professional", professionalId |-> professionalId,
            startTime |-> startTime, endTime |-> endTime, isActive |-> isActive]]
    /\ UNCHANGED <<slots, bookings, notifications, resp>>

\* Professional.prisma().find_unique and the test on what it returned
createSchedule_find_professional(c) ==
    /\ inflight[c].pc = "find_professional"
    /\ inflight' = [inflight EXCEPT ![c] =
           IF ~ProfessionalFound(inflight[c].professionalId)
           THEN [pc |-> "done",
                 result |-> CreateScheduleError("Professional with the given ID does not exist")]
           ELSE [inflight[c] EXCEPT !.pc = "find_slots"]]
    /\ UNCHANGED <<slots, bookings, notifications, resp>>

\* the overlap query (Slot.prisma().find_many) and the test on what it
\* returned.  rows_at_query records how many Slot rows the table held when
\* the query ran.
createSchedule_find_slots(c) ==
    /\ inflight[c].pc = "find_slots"
    /\ inflight' = [inflight EXCEPT ![c] =
           IF existing_slots(inflight[c].professionalId, inflight[c].startTime,
                             inflight[c].endTime) # {}
           THEN [pc |-> "done",
                 result |-> CreateScheduleError(
                                "This time slot conflicts with an existing schedule.")]
           ELSE [pc |-> "create_slot", professionalId |-> inflight[c].professionalId,
                 startTime |-> inflight[c].startTime, endTime |-> inflight[c].endTime,
                 isActive |-> inflight[c].isActive, rows_at_query |-> Len(slots)]]
    /\ UNCHANGED <<slots, bookings, notifications, resp>>

\* the create written as a conditional write that runs the overlap query again
createSchedule_create_slot_Rechecks(c) ==
    /\ inflight[c].pc = "create_slot"
    /\ Len(slots) < MaxSlots
    /\ IF existing_slots(inflight[c].professionalId, inflight[c].startTime,
                         inflight[c].endTime) # {}
       THEN /\ slots' = slots
            /\ inflight' = [inflight EXCEPT ![c] =
                   [pc |-> "done",
                    result |-> CreateScheduleError(
                                   "This time slot conflicts with an existing schedule.")]]
       ELSE /\ slots' = Append(slots, NewSlot(inflight[c].professionalId, inflight[c].startTime,
                                              inflight[c].endTime, inflight[c].isActive))
            /\ inflight' = [inflight EXCEPT ![c] =
                   [pc |-> "notify_professional",
                    professionalId |-> inflight[c].professionalId,
                    startTime |-> inflight[c].startTime, endTime |-> inflight[c].endTime,
                    isActive |-> inflight[c].isActive,
                    rows_at_query |-> inflight[c].rows_at_query,
                    schedule_id |-> Len(slots) + 1]]
    /\ UNCHANGED <<bookings, notifications, resp>>

\* Slot.prisma().create; schedule_id is the id of the row it returned
createSchedule_create_slot(c) ==
    /\ inflight[c].pc = "create_slot"
    /\ Len(slots) < MaxSlots
    /\ slots' = Append(slots, NewSlot(inflight[c].professionalId, inflight[c].startTime,
                                      inflight[c].endTime, inflight[c].isActive))
    /\ inflight' = [inflight EXCEPT ![c] =
           [pc |-> "notify_professional", professionalId |-> inflight[c].professionalId,
            startTime |-> inflight[c].startTime, endTime |-> inflight[c].endTime,
            isActive |-> inflight[c].isActive, rows_at_query |-> inflight[c].rows_at_query,
            schedule_id |-> Len(slots) + 1]]
    /\ UNCHANGED <<bookings, notifications, resp>>

\* a store failure of createSchedule that takes the written slot back
createSchedule_raise_RollsBack(c) ==
    /\ inflight[c].pc \in {"find_professional", "find_slots", "create_slot",
                           "notify_professional"}
    /\ slots' = IF inflight[c].pc = "notify_professional"
                THEN SubSeq(slots, 1, inflight[c].schedule_id - 1)
                     \o SubSeq(slots, inflight[c].schedule_id + 1, Len(slots))
                ELSE slots
    /\ inflight' = [inflight EXCEPT ![c] =
           [pc |-> "failed", result |-> ErrorResponse("createSchedule", "store failure"),
            professionalId |-> inflight[c].professionalId,
            startTime |-> inflight[c].startTime, endTime |-> inflight[c].endTime,
            isActive |-> inflight[c].isActive,
            schedule_id |-> IF inflight[c].pc = "notify_professional"
                            THEN inflight[c].schedule_id ELSE 0]]
    /\ UNCHANGED <<bookings, notifications, resp>>

\* Notification.prisma().create, was_notification_sent (the created row's id
\* is not None) and the return
createSchedule_create_notification(c) ==
    /\ inflight[c].pc = "notify_professional"
    /\ Len(notifications) < MaxNotifications
    /\ notifications' = Append(notifications,
           NewNotification(inflight[c].professionalId,
                           CreatedMessage(inflight[c].startTime, inflight[c].endTime)))
    /\ inflight' = [inflight EXCEPT ![c] =
           [pc |-> "done",
            result |-> CreateScheduleResponse(inflight[c].schedule_id,
                           inflight[c].professionalId, Len(notifications) + 1 # 0,
                           inflight[c].isActive),
            rows_at_query |-> inflight[c].rows_at_query]]
    /\ UNCHANGED <<slots, bookings, resp>>

\* The store call the handler was about to make raises: nothing is written,
\* the exception leaves createSchedule (which catches nothing) and the
\* endpoint answers it.  schedule_id is the slot the request had written by
\* then, 0 for none.
createSchedule_raise(c) ==
    /\ inflight[c].pc \in {"find_professional", "find_slots", "create_slot",
                           "notify_professional"}
    /\ inflight' = [inflight EXCEPT ![c] =
           [pc |-> "failed", result |-> ErrorResponse("createSchedule", "store failure"),
            professionalId |-> inflight[c].professionalId,
            startTime |-> inflight[c].startTime, endTime |-> inflight[c].endTime,
            isActive |-> inflight[c].isActive,
            schedule_id |-> IF inflight[c].pc = "notify_professional"
                            THEN inflight[c].schedule_id ELSE 0]]
    /\ UNCHANGED <<slots, bookings, notifications, resp>>

(* ------------------------------ behaviours --------------------------- *)

\* schedule ids a request may carry: every existing id and one that is not
ScheduleIds == 1..(Len(slots) + 1)

Init ==
    /\ slots = <<>>
    /\ bookings = <<>>
    /\ notifications = <<>>
    /\ resp = NoResponse
    /\ inflight = [c \in Handlers |-> Idle]

\* createSchedule, updateSchedule and deleteSchedule with every input
NextSchedule ==
    \/ \E p \in ProfessionalIds, s \in Times, e \in Times, a \in Activities, act \in BOOLEAN :
          createSchedule(p, s, e, a, act) /\ UNCHANGED inflight
    \/ \E id \in ScheduleIds, s \in Times, e \in Times, p \in Professionals, a \in Activities :
          updateSchedule(id, s, e, p, a) /\ UNCHANGED inflight
    \/ \E id \in ScheduleIds, r \in Role :
          deleteSchedule(id, r) /\ UNCHANGED inflight

SpecSchedule == Init /\ [][NextSchedule]_vars

\* the window of every slot made in SpecBooking
BookingWindow == <<0, 1>>

\* createSchedule (one window, so one slot for each professional),
\* bookAppointment and deleteSchedule with every input, and the confirmation
NextBooking ==
    \/ \E p \in ProfessionalIds, a \in Activities, act \in BOOLEAN :
          createSchedule(p, BookingWindow[1], BookingWindow[2], a, act) /\ UNCHANGED inflight
    \/ \E u \in Users, p \in ProfessionalIds, id \in ScheduleIds :
          bookAppointment(u, p, id) /\ UNCHANGED inflight
    \/ \E id \in ScheduleIds, r \in Role :
          deleteSchedule(id, r) /\ UNCHANGED inflight
    \/ \E b \in DOMAIN bookings :
          confirmBooking(b) /\ UNCHANGED inflight

SpecBooking == Init /\ [][NextBooking]_vars

\* the requests of SpecBooking and the two availability queries
NextAvailability ==
    \/ \E p \in ProfessionalIds, a \in Activities, act \in BOOLEAN :
          createSchedule(p, BookingWindow[1], BookingWindow[2], a, act) /\ UNCHANGED inflight
    \/ \E u \in Users, p \in ProfessionalIds, id \in ScheduleIds :
          bookAppointment(u, p, id) /\ UNCHANGED inflight
    \/ \E id \in ScheduleIds, r \in Role :
          deleteSchedule(id, r) /\ UNCHANGED inflight
    \/ \E b \in DOMAIN bookings :
          confirmBooking(b) /\ UNCHANGED inflight
    \/ \E p \in OptionalProfessionalIds, sd \in OptionalTimes, ed \in OptionalTimes,
          sp \in OptionalSpecialties :
          checkAvailability(p, sd, ed, sp) /\ UNCHANGED inflight
    \/ \E request \in FetchAvailabilityRequest, now \in Times :
          getProfessionalAvailability(request, now) /\ UNCHANGED inflight

SpecAvailability == Init /\ [][NextAvailability]_vars

\* the four writing services together: createSchedule and updateSchedule
\* within one window (an update moves a slot to another professional),
\* deleteSchedule and bookAppointment with every input
NextLifecycle ==
    \/ \E p \in ProfessionalIds, a \in Activities, act \in BOOLEAN :
          createSchedule(p, BookingWindow[1], BookingWindow[2], a, act) /\ UNCHANGED inflight
    \/ \E id \in ScheduleIds, p \in Professionals, a \in Activities :
          updateSchedule(id, BookingWindow[1], BookingWindow[2], p, a) /\ UNCHANGED inflight
    \/ \E id \in ScheduleIds, r \in Role :
          deleteSchedule(id, r) /\ UNCHANGED inflight
    \/ \E u \in Users, p \in ProfessionalIds, id \in ScheduleIds :
          bookAppointment(u, p, id) /\ UNCHANGED inflight

SpecLifecycle == Init /\ [][NextLifecycle]_vars

\* the one user booking in SpecConfirmed
OneUser == {1}

\* the four writing services as in SpecLifecycle, the bookings made by one
\* user for existing professionals, and the confirmation
NextConfirmed ==
    \/ \E p \in ProfessionalIds, a \in Activities, act \in BOOLEAN :
          createSchedule(p, BookingWindow[1], BookingWindow[2], a, act) /\ UNCHANGED inflight
    \/ \E id \in ScheduleIds, p \in Professionals, a \in Activities :
          updateSchedule(id, BookingWindow[1], BookingWindow[2], p, a) /\ UNCHANGED inflight
    \/ \E id \in ScheduleIds, r \in Role :
          deleteSchedule(id, r) /\ UNCHANGED inflight
    \/ \E u \in OneUser, p \in Professionals, id \in ScheduleIds :
          bookAppointment(u, p, id) /\ UNCHANGED inflight
    \/ \E b \in DOMAIN bookings :
          confirmBooking(b) /\ UNCHANGED inflight

SpecConfirmed == Init /\ [][NextConfirmed]_vars

\* bookAppointment requests running side by side, each one store call at a
\* time, on slots of one window, with the confirmation between their calls
NextBookingRace ==
    \/ \E p \in ProfessionalIds, a \in Activities, act \in BOOLEAN :
          createSchedule(p, BookingWindow[1], BookingWindow[2], a, act) /\ UNCHANGED inflight
    \/ \E c \in Handlers, u \in Users, p \in ProfessionalIds, id \in ScheduleIds :
          bookAppointment_find_slot(c, u, p, id)
    \/ \E c \in Handlers :
          bookAppointment_create_booking(c)
    \/ \E b \in DOMAIN bookings :
          confirmBooking(b) /\ UNCHANGED inflight

SpecBookingRace == Init /\ [][NextBookingRace]_vars

\* Requests one after the other: the requests of SpecBooking, each in one
\* step, and then one deleteSchedule request, taken by the first handler
\* and followed one store call at a time, any of its store calls failing.
NextStoreFailure ==
    \/ \E p \in ProfessionalIds, a \in Activities, act \in BOOLEAN :
          /\ NoneStarted
          /\ createSchedule(p, BookingWindow[1], BookingWindow[2], a, act)
          /\ UNCHANGED inflight
    \/ \E u \in Users, p \in ProfessionalIds, id \in ScheduleIds :
          NoneStarted /\ bookAppointment(u, p, id) /\ UNCHANGED inflight
    \/ \E id \in ScheduleIds, r \in Role :
          NoneStarted /\ deleteSchedule(id, r) /\ UNCHANGED inflight
    \/ \E b \in DOMAIN bookings :
          NoneStarted /\ confirmBooking(b) /\ UNCHANGED inflight
    \/ \E c \in Handlers, id \in ScheduleIds, r \in Role :
          NoneStarted /\ NextToStart(c) /\ deleteSchedule_begin(c, id, r)
    \/ \E c \in Handlers : deleteSchedule_find_slot(c)
    \/ \E c \in Handlers : deleteSchedule_find_bookings(c)
    \/ \E c \in Handlers : deleteSchedule_update_booking(c)
    \/ \E c \in Handlers : deleteSchedule_create_notification(c)
    \/ \E c \in Handlers : deleteSchedule_update_slot(c)
    \/ \E c \in Handlers : deleteSchedule_raise(c)

SpecStoreFailure == Init /\ [][NextStoreFailure]_vars

\* createSchedule requests running side by side on an empty store, each one
\* store call at a time
NextCreateRace ==
    \/ \E c \in Handlers, p \in ProfessionalIds, s \in Times, e \in Times, a \in Activities,
          act \in BOOLEAN :
          NextToStart(c) /\ createSchedule_begin(c, p, s, e, a, act)
    \/ \E c \in Handlers : createSchedule_find_professional(c)
    \/ \E c \in Handlers : createSchedule_find_slots(c)
    \/ \E c \in Handlers : createSchedule_create_slot(c)
    \/ \E c \in Handlers : createSchedule_create_notification(c)

SpecCreateRace == Init /\ [][NextCreateRace]_vars

\* no handler is between two store calls of a request
NoneRunning == \A c \in Handlers : inflight[c].pc \in {"idle", "done", "failed"}

\* Requests one after the other: createSchedule requests in one step each,
\* before and after one createSchedule request that is taken by the first
\* handler and followed one store call at a time, any of its store calls
\* failing.
NextCreateFailure ==
    \/ \E p \in ProfessionalIds, s \in Times, e \in Times, a \in Activities, act \in BOOLEAN :
          NoneRunning /\ createSchedule(p, s, e, a, act) /\ UNCHANGED inflight
    \/ \E c \in Handlers, p \in ProfessionalIds, s \in Times, e \in Times, a \in Activities,
          act \in BOOLEAN :
          NoneStarted /\ NextToStart(c) /\ createSchedule_begin(c, p, s, e, a, act)
    \/ \E c \in Handlers : createSchedule_find_professional(c)
    \/ \E c \in Handlers : createSchedule_find_slots(c)
    \/ \E c \in Handlers : createSchedule_create_slot(c)
    \/ \E c \in Handlers : createSchedule_create_notification(c)
    \/ \E c \in Handlers : createSchedule_raise(c)

SpecCreateFailure == Init /\ [][NextCreateFailure]_vars

\* the handlers that take the two requests of SpecCancelRace
BookingHandler == CHOOSE c \in Handlers : \A d \in Handlers : c <= d
DeletingHandler == CHOOSE c \in Handlers : \A d \in Handlers : c >= d

\* Requests one after the other (createSchedule within one window,
\* bookAppointment, deleteSchedule, each in one step), and then a
\* bookAppointment request and a deleteSchedule request running side by
\* side in either order, each one store call at a time.
NextCancelRace ==
    \/ \E p \in ProfessionalIds, a \in Activities, act \in BOOLEAN :
          /\ NoneStarted
          /\ createSchedule(p, BookingWindow[1], BookingWindow[2], a, act)
          /\ UNCHANGED inflight
    \/ \E u \in Users, p \in ProfessionalIds, id \in ScheduleIds :
          NoneStarted /\ bookAppointment(u, p, id) /\ UNCHANGED inflight
    \/ \E id \in ScheduleIds, r \in Role :
          NoneStarted /\ deleteSchedule(id, r) /\ UNCHANGED inflight
    \/ \E u \in Users, p \in ProfessionalIds, id \in ScheduleIds :
          bookAppointment_find_slot(BookingHandler, u, p, id)
    \/ \E c \in Handlers :
          bookAppointment_create_booking(c)
    \/ \E id \in ScheduleIds, r \in Role :
          deleteSchedule_begin(DeletingHandler, id, r)
    \/ \E c \in Handlers : deleteSchedule_find_slot(c)
    \/ \E c \in Handlers : deleteSchedule_find_bookings(c)
    \/ \E c \in Handlers : deleteSchedule_update_booking(c)
    \/ \E c \in Handlers : deleteSchedule_create_notification(c)
    \/ \E c \in Handlers : deleteSchedule_update_slot(c)

SpecCancelRace == Init /\ [][NextCancelRace]_vars

\* every operation with every input
Next == NextSchedule \/ NextBooking

Spec == Init /\ [][Next]_vars

(* ------------------------------- claims ------------------------------ *)

\* every slot belongs to an existing professional, ids are the row indexes
TypeOK ==
    /\ \A i \in DOMAIN slots :
          /\ slots[i].professionalId \in Professionals
          /\ slots[i].startTime \in Times /\ slots[i].endTime \in Times
          /\ slots[i].isActive \in BOOLEAN
    /\ \A b \in DOMAIN bookings :
          /\ bookings[b].userId \in Users
          /\ bookings[b].slotId \in DOMAIN slots
          /\ bookings[b].status \in BookingStatus
    /\ \A n \in DOMAIN notifications : notifications[n].read = FALSE

\* the closed intervals [s1, e1] and [s2, e2] share a point (the claims' test)
ClosedOverlap(s1, e1, s2, e2) == s1 <= e2 /\ e1 >= s2

\* C1: in every reachable state and for every pair of times, if some slot
\* of p has slot.start <= end and slot.end >= start (touching intervals
\* included), then createSchedule(p, start, end) answers, and it cannot end
\* in anything but the conflict error with the Slot and Notification tables
\* as they were.
C1_OverlapIsRejected ==
    \A p \in ProfessionalIds, s \in Times, e \in Times, a \in Activities, act \in BOOLEAN :
        (\E i \in DOMAIN slots :
            /\ slots[i].professionalId = p
            /\ ClosedOverlap(slots[i].startTime, slots[i].endTime, s, e))
        => /\ ENABLED createSchedule(p, s, e, a, act)
           /\ ~ENABLED ( /\ createSchedule(p, s, e, a, act)
                         /\ ~( /\ resp'.error = "This time slot conflicts with an existing schedule."
                               /\ slots' = slots
                               /\ notifications' = notifications ) )

\* C1 witness: a request was rejected as a conflict with the only slot there
\* is, the single point [0, 0]
C1_Witness ==
    /\ resp.op = "createSchedule"
    /\ resp.error = "This time slot conflicts with an existing schedule."
    /\ Len(slots) = 1
    /\ slots[1].startTime = 0 /\ slots[1].endTime = 0

\* two different active slots of one professional overlap (closed intervals)
ActiveOverlap(i, j) ==
    /\ i # j
    /\ slots[i].isActive /\ slots[j].isActive
    /\ slots[i].professionalId = slots[j].professionalId
    /\ ClosedOverlap(slots[i].startTime, slots[i].endTime,
                     slots[j].startTime, slots[j].endTime)

NoActiveOverlap == \A i, j \in DOMAIN slots : ~ActiveOverlap(i, j)

\* two different active slots of one professional share more than an endpoint
ProperOverlap(i, j) ==
    /\ i # j
    /\ slots[i].isActive /\ slots[j].isActive
    /\ slots[i].professionalId = slots[j].professionalId
    /\ slots[i].startTime < slots[j].endTime
    /\ slots[j].startTime < slots[i].endTime

\* C2 as claimed: under createSchedule, updateSchedule and deleteSchedule no
\* two active slots of one professional overlap in time (here: not even
\* in more than an endpoint).
C2_NoOverlapEver == \A i, j \in DOMAIN slots : ~ProperOverlap(i, j)

\* some updateSchedule request is this step
UpdateStep ==
    \E id \in ScheduleIds, s \in Times, e \in Times, p \in Professionals, a \in Activities :
        updateSchedule(id, s, e, p, a)

\* C2 as amended: every step other than an updateSchedule keeps the active
\* slots of each professional free of overlap (closed intervals), so sequences
\* of createSchedule and deleteSchedule requests never produce an overlap;
\* only updateSchedule can.
C2_NoOverlapUnlessUpdated ==
    [][NoActiveOverlap' \/ ~NoActiveOverlap \/ UpdateStep]_vars

\* C2 witness: two active slots of one professional made by createSchedule
\* alone (both creation notices, no update notice), side by side
C2_Witness ==
    /\ Len(slots) = 2
    /\ slots[1].professionalId = slots[2].professionalId
    /\ slots[1].isActive /\ slots[2].isActive
    /\ \A n \in DOMAIN notifications : notifications[n].message = "New schedule created"
    /\ resp.op = "createSchedule" /\ resp.scheduleId = 2
    /\ NoActiveOverlap

\* number of CONFIRMED bookings attached to a slot
ConfirmedCount(slotId) ==
    Cardinality({b \in DOMAIN bookings :
                    bookings[b].slotId = slotId /\ bookings[b].status = "CONFIRMED"})

\* C3 as claimed: under bookAppointment, deleteSchedule and the external
\* confirmation of PENDING bookings, each slot has at most one CONFIRMED
\* booking in every reachable state.
C3_OneConfirmedPerSlot == \A id \in DOMAIN slots : ConfirmedCount(id) <= 1

\* the external step confirms a booking of a slot that has a CONFIRMED one
SecondConfirmStep ==
    \E b \in DOMAIN bookings : confirmBooking(b) /\ ConfirmedCount(bookings[b].slotId) >= 1

\* C3 as amended: as long as the external step confirms a booking only when
\* its slot has no CONFIRMED booking yet, each slot has at most one CONFIRMED
\* booking: every other step keeps that.
C3_OneConfirmedUnlessConfirmedTwice ==
    [][(C3_OneConfirmedPerSlot /\ ~SecondConfirmStep) => C3_OneConfirmedPerSlot']_vars

\* C3 witness: a slot with one CONFIRMED and one PENDING booking, on which a
\* further booking request has just failed
C3_Witness ==
    /\ \E b1, b2 \in DOMAIN bookings :
          /\ bookings[b1].slotId = bookings[b2].slotId
          /\ bookings[b1].status = "CONFIRMED"
          /\ bookings[b2].status = "PENDING"
    /\ C3_OneConfirmedPerSlot
    /\ resp.op = "bookAppointment" /\ resp.status = "failed"

\* C4: a bookAppointment step on a slot that has a CONFIRMED booking returns
\* "failed" with no booking id and leaves the Booking table as it was.
C4_ConfirmedSlotIsRefused ==
    [][\A u \in Users, p \in ProfessionalIds, id \in ScheduleIds :
          ( /\ bookAppointment(u, p, id)
            /\ ConfirmedCount(id) >= 1 )
          => /\ resp'.error = "" /\ resp'.status = "failed" /\ resp'.bookingId = 0
             /\ bookings' = bookings]_vars

\* C4 witness: the request was refused because the slot is confirmed, the
\* slot being active still
C4_Witness ==
    /\ resp.op = "bookAppointment" /\ resp.status = "failed"
    /\ resp.message = AlreadyConfirmedMessage
    /\ \E id \in DOMAIN slots : slots[id].isActive /\ ConfirmedCount(id) = 1

\* C5: a bookAppointment step on a slot that does not exist, is inactive or
\* belongs to another professional returns "failed" as a value (nothing is
\* raised) and creates no booking.
C5_InvalidSlotIsRefused ==
    [][\A u \in Users, p \in ProfessionalIds, id \in ScheduleIds :
          ( /\ bookAppointment(u, p, id)
            /\ \/ id \notin DOMAIN slots
               \/ ~slots[id].isActive
               \/ slots[id].professionalId # p )
          => /\ resp'.error = "" /\ resp'.status = "failed" /\ resp'.bookingId = 0
             /\ bookings' = bookings]_vars

\* C5 witness: the request was refused for the slot, with an inactive slot,
\* an active one and a booking in the store
C5_Witness ==
    /\ resp.op = "bookAppointment" /\ resp.status = "failed"
    /\ resp.message = InvalidSlotMessage
    /\ \E i, j \in DOMAIN slots : slots[i].isActive /\ ~slots[j].isActive
    /\ bookings # <<>>

\* the slot exists, is active, belongs to p and has no CONFIRMED booking
Bookable(p, id) ==
    /\ id \in DOMAIN slots
    /\ slots[id].isActive
    /\ slots[id].professionalId = p
    /\ ConfirmedCount(id) = 0

\* C6: a bookAppointment step on a bookable slot appends exactly one booking
\* (userId, slotId, PENDING), returns its id with status "pending" and
\* changes no other booking row.
C6_BookingIsCreatedPending ==
    [][\A u \in Users, p \in ProfessionalIds, id \in ScheduleIds :
          (bookAppointment(u, p, id) /\ Bookable(p, id))
          => /\ Len(bookings') = Len(bookings) + 1
             /\ \A b \in DOMAIN bookings : bookings'[b] = bookings[b]
             /\ bookings'[Len(bookings')] =
                   [userId |-> u, slotId |-> id, status |-> "PENDING"]
             /\ resp'.error = "" /\ resp'.status = "pending"
             /\ resp'.bookingId = Len(bookings')]_vars

\* C6 witness: the booking just returned is the last row and is PENDING,
\* beside an older booking
C6_Witness ==
    /\ resp.op = "bookAppointment" /\ resp.status = "pending"
    /\ resp.bookingId = Len(bookings) /\ Len(bookings) = 2
    /\ bookings[resp.bookingId].status = "PENDING"

\* the slot has a CONFIRMED booking or is inactive
Closed(id) == id \in DOMAIN slots /\ (ConfirmedCount(id) >= 1 \/ ~slots[id].isActive)

\* C7: a bookAppointment step on an active slot of the professional whose
\* bookings are all PENDING (and there is one) succeeds with "pending"; a
\* slot that has a CONFIRMED booking stays closed (confirmed or inactive)
\* through every later step, and a bookAppointment step on a closed slot
\* returns "failed": so every booking request after a confirmation fails.
C7_PendingDoesNotBlockConfirmedDoes ==
    [][\A u \in Users, p \in ProfessionalIds, id \in ScheduleIds :
          /\ ( /\ bookAppointment(u, p, id)
               /\ Bookable(p, id)
               /\ \E b \in DOMAIN bookings : bookings[b].slotId = id )
             => (resp'.status = "pending" /\ Len(bookings') = Len(bookings) + 1)
          /\ Closed(id) => Closed(id)'
          /\ (bookAppointment(u, p, id) /\ Closed(id))
             => (resp'.status = "failed" /\ bookings' = bookings)]_vars

\* C7 witness: the second booking of the slot was taken while the first was
\* PENDING (it is PENDING itself), the first is CONFIRMED now, and the
\* request after that has failed for that reason
C7_Witness ==
    /\ Len(bookings) = 2
    /\ bookings[1].slotId = bookings[2].slotId
    /\ bookings[1].status = "CONFIRMED" /\ bookings[2].status = "PENDING"
    /\ slots[bookings[1].slotId].isActive
    /\ resp.op = "bookAppointment" /\ resp.message = AlreadyConfirmedMessage

\* the bookings attached to a slot
Attached(id) == {b \in DOMAIN bookings : bookings[b].slotId = id}

\* C8: a deleteSchedule step that returns success on a slot with N bookings
\* leaves those N bookings CANCELLED (whatever their status was) and every
\* other booking as it was, appends exactly N notifications, one to each
\* of those bookings' users, and sets the slot's active flag to false while
\* every slot row stays.
C8_DeleteCancelsAndNotifies ==
    [][\A id \in ScheduleIds, r \in Role :
          (deleteSchedule(id, r) /\ resp'.success)
          => /\ id \in DOMAIN slots
             /\ DOMAIN bookings' = DOMAIN bookings
             /\ \A b \in DOMAIN bookings :
                   IF b \in Attached(id)
                   THEN bookings'[b] = [bookings[b] EXCEPT !.status = "CANCELLED"]
                   ELSE bookings'[b] = bookings[b]
             /\ Len(notifications') = Len(notifications) + Cardinality(Attached(id))
             /\ \A n \in DOMAIN notifications : notifications'[n] = notifications[n]
             /\ \E f \in [1..Cardinality(Attached(id)) -> Attached(id)] :
                   /\ \A b \in Attached(id) : \E i \in DOMAIN f : f[i] = b
                   /\ \A i \in DOMAIN f :
                         /\ notifications'[Len(notifications) + i].userId = bookings[f[i]].userId
                         /\ notifications'[Len(notifications) + i].message = "Booking cancelled"
             /\ DOMAIN slots' = DOMAIN slots
             /\ slots'[id] = [slots[id] EXCEPT !.isActive = FALSE]
             /\ \A i \in DOMAIN slots : i # id => slots'[i] = slots[i]]_vars

\* C8 witness: a slot deleted with two bookings of different users: both
\* CANCELLED, two cancellation notices to different users after the slot's
\* creation notice, the slot inactive
C8_Witness ==
    /\ resp.op = "deleteSchedule" /\ resp.success
    /\ Len(slots) = 1 /\ ~slots[1].isActive
    /\ Len(bookings) = 2
    /\ bookings[1].userId # bookings[2].userId
    /\ \A b \in DOMAIN bookings : bookings[b].slotId = 1 /\ bookings[b].status = "CANCELLED"
    /\ Len(notifications) = 3
    /\ notifications[2].message = "Booking cancelled"
    /\ notifications[3].message = "Booking cancelled"
    /\ notifications[2].userId # notifications[3].userId

\* C9: a deleteSchedule step with role REGISTERED_USER or GUEST returns
\* success = false with the unauthorized-role message and changes no slot,
\* booking or notification, for existing and missing schedule ids alike.
C9_OtherRolesAreDenied ==
    [][\A id \in ScheduleIds, r \in {"REGISTERED_USER", "GUEST"} :
          deleteSchedule(id, r)
          => /\ resp'.error = "" /\ resp'.success = FALSE
             /\ resp'.message = "Request denied: unauthorized role."
             /\ UNCHANGED <<slots, bookings, notifications>>]_vars

\* C9 witness: the request was denied while an active slot with a live
\* booking was there to delete
C9_Witness ==
    /\ resp.op = "deleteSchedule" /\ ~resp.success
    /\ resp.message = "Request denied: unauthorized role."
    /\ \E b \in DOMAIN bookings :
          bookings[b].status = "PENDING" /\ slots[bookings[b].slotId].isActive

\* C10: a deleteSchedule step by ADMIN or PROFESSIONAL on an id that
\* references no slot returns success = false and changes no slot, booking
\* or notification.
C10_MissingScheduleFails ==
    [][\A id \in ScheduleIds, r \in {"ADMIN", "PROFESSIONAL"} :
          (deleteSchedule(id, r) /\ id \notin DOMAIN slots)
          => /\ resp'.error = "" /\ resp'.success = FALSE
             /\ UNCHANGED <<slots, bookings, notifications>>]_vars

\* C10 witness: the request found no schedule, with slots and a booking in
\* the store
C10_Witness ==
    /\ resp.op = "deleteSchedule" /\ ~resp.success
    /\ resp.message = "No such schedule exists."
    /\ slots # <<>> /\ bookings # <<>>

\* C12: in every reachable state, createSchedule for a professional id that
\* references no professional answers, and it cannot end in anything but the
\* "does not exist" error with the Slot, Booking and Notification tables as
\* they were.
C12_UnknownProfessionalIsRejected ==
    \A p \in ProfessionalIds \ Professionals, s \in Times, e \in Times,
       a \in Activities, act \in BOOLEAN :
        /\ ENABLED createSchedule(p, s, e, a, act)
        /\ ~ENABLED ( /\ createSchedule(p, s, e, a, act)
                      /\ ~( /\ resp'.error = "Professional with the given ID does not exist"
                            /\ slots' = slots
                            /\ bookings' = bookings
                            /\ notifications' = notifications ) )

\* the request for an unknown professional was refused with slots in the table
C12_Witness ==
    /\ resp.op = "createSchedule"
    /\ resp.error = "Professional with the given ID does not exist"
    /\ slots # <<>>
    /\ \A i \in DOMAIN slots : slots[i].professionalId \in Professionals

\* C13: in every reachable state, a createSchedule that succeeds cannot do
\* anything but append one slot row holding the requested professional,
\* start, end and active flag, append one notification addressed to that
\* professional, and return the new row's id, the professional id and the
\* row's active flag.
C13_SuccessCreatesOneSlotOneNotification ==
    \A p \in ProfessionalIds, s \in Times, e \in Times, a \in Activities, act \in BOOLEAN :
        ~ENABLED ( /\ createSchedule(p, s, e, a, act)
                   /\ resp'.error = ""
                   /\ ~( /\ slots' = Append(slots, [professionalId |-> p, startTime |-> s,
                                                    endTime |-> e, isActive |-> act])
                         /\ Len(notifications') = Len(notifications) + 1
                         /\ SubSeq(notifications', 1, Len(notifications)) = notifications
                         /\ notifications'[Len(notifications')].userId = p
                         /\ bookings' = bookings
                         /\ resp'.scheduleId = Len(slots')
                         /\ resp'.professionalId = p
                         /\ resp'.isActive = act ) )

\* an inactive slot was just created and answered with its id and its flag
C13_Witness ==
    /\ resp.op = "createSchedule"
    /\ resp.error = ""
    /\ resp.scheduleId = Len(slots)
    /\ ~resp.isActive
    /\ ~slots[resp.scheduleId].isActive
    /\ slots[resp.scheduleId].professionalId = resp.professionalId
    /\ notifications[Len(notifications)].userId = resp.professionalId

\* C14: in every reachable state and for every existing slot and every
\* start, end and professional, updateSchedule answers while the
\* Notification table has room, and it cannot end in anything but
\* updated=true with the row's start, end and professional set to the
\* supplied values (the active flag and the other rows as they were),
\* whether or not the new interval overlaps another slot of that professional.
C14_UpdateNeverChecksOverlap ==
    \A id \in DOMAIN slots, s \in Times, e \in Times, p \in Professionals, a \in Activities :
        /\ Len(notifications) < MaxNotifications => ENABLED updateSchedule(id, s, e, p, a)
        /\ ~ENABLED ( /\ updateSchedule(id, s, e, p, a)
                      /\ ~( /\ resp'.updated
                            /\ slots' = [slots EXCEPT ![id] =
                                            [professionalId |-> p, startTime |-> s,
                                             endTime |-> e, isActive |-> slots[id].isActive]] ) )

\* the slot just updated is active and shares a point of time with another
\* active slot of its professional
C14_Witness ==
    /\ resp.op = "updateSchedule"
    /\ resp.updated
    /\ slots[resp.scheduleId].isActive
    /\ \E j \in DOMAIN slots :
          /\ j # resp.scheduleId
          /\ slots[j].isActive
          /\ slots[j].professionalId = slots[resp.scheduleId].professionalId
          /\ ClosedOverlap(slots[j].startTime, slots[j].endTime,
                           slots[resp.scheduleId].startTime, slots[resp.scheduleId].endTime)

\* C15: in every reachable state and for every existing slot, an
\* updateSchedule cannot do anything but append one notification, unread
\* and addressed to the professional id of the request, and return
\* updated=true with that notification's id, recipient, message and
\* read=false.
C15_UpdateNotifiesNewOwner ==
    \A id \in DOMAIN slots, s \in Times, e \in Times, p \in Professionals, a \in Activities :
        ~ENABLED ( /\ updateSchedule(id, s, e, p, a)
                   /\ ~( /\ notifications' = Append(notifications,
                                [userId |-> p, message |-> UpdatedMessage(a, s, e),
                                 read |-> FALSE])
                         /\ resp'.error = ""
                         /\ resp'.updated
                         /\ resp'.notification =
                                [id |-> Len(notifications'), userId |-> p,
                                 message |-> UpdatedMessage(a, s, e), read |-> FALSE] ) )

\* the only slot, created for one professional, was just handed to another,
\* and the update's notification went to the new one
C15_Witness ==
    /\ resp.op = "updateSchedule"
    /\ resp.updated
    /\ Len(slots) = 1
    /\ Len(notifications) = 2
    /\ notifications[1].message = CreatedMessage(0, 0)
    /\ notifications[1].userId # slots[1].professionalId
    /\ resp.notification.id = 2
    /\ notifications[2].userId = slots[1].professionalId
    /\ resp.notification.userId = slots[1].professionalId

\* C16: in every reachable state, updateSchedule for an id that references
\* no slot answers without raising, and it cannot end in anything but
\* updated=false with the placeholder notification (id 0, user 0, empty
\* message, read=false) and the Slot, Booking and Notification tables as
\* they were.
C16_MissingRowIsNotAnError ==
    \A id \in ScheduleIds \ DOMAIN slots, s \in Times, e \in Times,
       p \in Professionals, a \in Activities :
        /\ ENABLED updateSchedule(id, s, e, p, a)
        /\ ~ENABLED ( /\ updateSchedule(id, s, e, p, a)
                      /\ ~( /\ resp'.error = ""
                            /\ resp'.updated = FALSE
                            /\ resp'.notification =
                                   [id |-> 0, userId |-> 0, message |-> "", read |-> FALSE]
                            /\ slots' = slots
                            /\ bookings' = bookings
                            /\ notifications' = notifications ) )

\* an update of a missing id was answered with the placeholder while slots
\* and notifications exist
C16_Witness ==
    /\ resp.op = "updateSchedule"
    /\ ~resp.updated
    /\ resp.notification.id = 0
    /\ resp.scheduleId \notin DOMAIN slots
    /\ slots # <<>>
    /\ notifications # <<>>

\* the active slots the four filters of checkAvailability select
MatchingSlots(professionalId, startDate, endDate, specialty) ==
    {i \in DOMAIN slots :
        /\ slots[i].isActive
        /\ professionalId # 0 => slots[i].professionalId = professionalId
        /\ specialty # "" => Specialty[slots[i].professionalId] = specialty
        /\ startDate # <<>> => slots[i].startTime >= startDate[1]
        /\ endDate # <<>> => slots[i].endTime <= endDate[1]}

\* C17: every checkAvailability request returns "available" if some active
\* slot matching its filters has no bookings or only CANCELLED ones,
\* otherwise "busy" if some matching slot has a booking, otherwise
\* "unavailable" (no matching active slot exists).
C17_StatusOfMatchingSlots ==
    [][\A p \in OptionalProfessionalIds, sd \in OptionalTimes, ed \in OptionalTimes,
          sp \in OptionalSpecialties :
          checkAvailability(p, sd, ed, sp)
          => LET matching == MatchingSlots(p, sd, ed, sp)
             IN  /\ resp'.error = ""
                 /\ resp'.availability =
                       IF \E i \in matching : Unbooked(i) THEN "available"
                       ELSE IF \E i \in matching : SlotBookings(i) # {} THEN "busy"
                       ELSE "unavailable"
                 /\ resp'.availability = "unavailable" <=> matching = {}]_vars

\* the CONFIRMED status is that of a slot active now: some active slot of
\* the professional contains the time and has a CONFIRMED booking
BusyNow(professionalId, current_time) ==
    \E i \in DOMAIN slots :
        /\ slots[i].professionalId = professionalId
        /\ slots[i].isActive
        /\ slots[i].startTime <= current_time
        /\ current_time < slots[i].endTime
        /\ HasConfirmed(i)

\* C18: every getProfessionalAvailability request returns, for the
\* professional it was made for, "busy" if some active slot of the
\* professional with start <= now < end has a CONFIRMED booking and
\* "available" otherwise.
C18_BusyIffConfirmedNow ==
    [][\A request \in FetchAvailabilityRequest, now \in Times :
          getProfessionalAvailability(request, now)
          => /\ resp'.error = ""
             /\ \E p \in ProfessionalIds :
                   resp'.availability = IF BusyNow(p, now) THEN "busy" ELSE "available"]_vars

\* C19: no step of createSchedule, updateSchedule, deleteSchedule or
\* bookAppointment removes a slot row: every slot id of the table before
\* the step is a slot id after it, and a deleteSchedule step leaves every
\* row as it was or with its active flag set to false.
C19_SlotsAreNeverRemoved ==
    [][/\ DOMAIN slots \subseteq DOMAIN slots'
       /\ resp'.op = "deleteSchedule"
          => /\ DOMAIN slots' = DOMAIN slots
             /\ \A i \in DOMAIN slots :
                   \/ slots'[i] = slots[i]
                   \/ slots'[i] = [slots[i] EXCEPT !.isActive = FALSE]]_vars

\* a deleted slot is still a row, inactive, with its bookings attached, and
\* was moved to another professional since its creation
C19_Witness ==
    /\ resp.op = "deleteSchedule"
    /\ resp.success
    /\ \E i \in DOMAIN slots :
          /\ ~slots[i].isActive
          /\ SlotBookings(i) # {}
          /\ \E n \in DOMAIN notifications :
                /\ notifications[n].message = UpdatedMessage("checkup", 0, 1)
                /\ notifications[n].userId = slots[i].professionalId

\* the step is the one in which handler c's deleteSchedule ends in a store
\* failure after it cancelled at least one booking
FailsAfterCancelling(c) ==
    /\ inflight[c].pc \in {"update_booking", "create_notification", "update_slot"}
    /\ inflight'[c].pc = "failed"
    /\ inflight'[c].cancelled # {}

\* C11 as stated: whenever a deleteSchedule ends in a store failure after
\* cancelling some bookings, the caller gets an error, the bookings it
\* cancelled are CANCELLED, and the slot is active.
C11_FailureLeavesSlotActive ==
    [][\A c \in Handlers :
          FailsAfterCancelling(c)
          => /\ inflight'[c].result.error # ""
             /\ \A b \in inflight'[c].cancelled : bookings'[b].status = "CANCELLED"
             /\ slots'[inflight'[c].scheduleId].isActive]_vars

\* C11: whenever a deleteSchedule ends in a store failure after cancelling
\* some bookings, the caller gets an error (no success field at all), the
\* failing call writes nothing, the bookings the request cancelled are
\* CANCELLED, and the slot's active flag is what the request found it to be.
C11_FailureLeavesSlotFlag ==
    [][\A c \in Handlers :
          FailsAfterCancelling(c)
          => /\ inflight'[c].result.error # ""
             /\ "success" \notin DOMAIN inflight'[c].result
             /\ <<slots', bookings', notifications'>> = <<slots, bookings, notifications>>
             /\ \A b \in inflight'[c].cancelled : bookings'[b].status = "CANCELLED"
             /\ slots'[inflight'[c].scheduleId].isActive = inflight[c].slot.isActive]_vars

\* a deleteSchedule failed half way: one booking of the slot is CANCELLED,
\* another is not, the slot is still active and the caller got an error
C11_Witness ==
    \E c \in Handlers :
        /\ inflight[c].pc = "failed"
        /\ inflight[c].result.error # ""
        /\ inflight[c].cancelled # {}
        /\ slots[inflight[c].scheduleId].isActive
        /\ \A b \in inflight[c].cancelled : bookings[b].status = "CANCELLED"
        /\ \E b \in SlotBookings(inflight[c].scheduleId) : bookings[b].status # "CANCELLED"

ConfirmedTotal == Cardinality({b \in DOMAIN bookings : bookings[b].status = "CONFIRMED"})

\* the step is the confirmation of a booking
ConfirmStep == \E b \in DOMAIN bookings : confirmBooking(b)

\* C24: every step of createSchedule, updateSchedule, deleteSchedule and
\* bookAppointment (every step that is not the confirmation made outside
\* the services) leaves the number of CONFIRMED bookings as it was or
\* smaller, changes the status of an existing booking to CANCELLED or not at
\* all, and adds bookings only as PENDING.
C24_ServicesNeverConfirm ==
    [][\/ /\ ConfirmedTotal' <= ConfirmedTotal
          /\ \A b \in DOMAIN bookings :
                bookings'[b].status \in {bookings[b].status, "CANCELLED"}
          /\ \A b \in DOMAIN bookings' \ DOMAIN bookings : bookings'[b].status = "PENDING"
       \/ ConfirmStep]_vars

\* a deletion just cancelled the booking of one slot while the booking of
\* another slot is CONFIRMED, as it was before the deletion
C24_Witness ==
    /\ resp.op = "deleteSchedule"
    /\ resp.success
    /\ ConfirmedTotal = 1
    /\ \E b \in DOMAIN bookings :
          /\ bookings[b].status = "CANCELLED"
          /\ ~slots[bookings[b].slotId].isActive
    /\ \E n \in DOMAIN notifications : notifications[n].message = CancelledMessage(0)

Deleted(id) ==
    /\ ~slots[id].isActive
    /\ \A b \in SlotBookings(id) : bookings[b].status = "CANCELLED"

\* C27: in every reachable state, a deleteSchedule by an allowed role of a
\* slot that is inactive with all its bookings CANCELLED cannot end in
\* anything but success with the Slot and Booking tables as they were and
\* one more notification for each booking of the slot.
C27_RepeatedDeleteNotifiesAgain ==
    \A id \in DOMAIN slots, r \in AllowedRoles :
        Deleted(id)
        => ~ENABLED ( /\ deleteSchedule(id, r)
                      /\ ~( /\ resp'.success
                            /\ slots' = slots
                            /\ bookings' = bookings
                            /\ Len(notifications') =
                                  Len(notifications) + Cardinality(SlotBookings(id))
                            /\ SubSeq(notifications', 1, Len(notifications)) = notifications ) )

\* a slot with one booking was deleted twice: it is inactive, the booking is
\* CANCELLED, and the booking's user has two cancellation notices
C27_Witness ==
    /\ resp.op = "deleteSchedule"
    /\ resp.success
    /\ \E id \in DOMAIN slots :
          /\ Deleted(id)
          /\ Cardinality(SlotBookings(id)) = 1
          /\ Cardinality({n \in DOMAIN notifications :
                             notifications[n].message = CancelledMessage(0)}) = 2

\* no step turns an inactive slot into an active one
FlagStaysDown == \A i \in DOMAIN slots : ~slots[i].isActive => ~slots'[i].isActive

\* an update of an inactive slot cannot end in anything but updated=true
\* with the row's start, end and professional set, its flag still false and
\* the Booking table as it was
UpdateOfInactiveSlot ==
    \A id \in DOMAIN slots, s \in Times, e \in Times, p \in Professionals, a \in Activities :
        ~slots[id].isActive
        => /\ Len(notifications) < MaxNotifications => ENABLED updateSchedule(id, s, e, p, a)
           /\ ~ENABLED ( /\ updateSchedule(id, s, e, p, a)
                         /\ ~( /\ resp'.updated
                               /\ slots'[id] = [professionalId |-> p, startTime |-> s,
                                                endTime |-> e, isActive |-> FALSE]
                               /\ bookings' = bookings ) )

\* C28: no step makes an inactive slot active again, and in every reachable
\* state an updateSchedule of an inactive slot succeeds (while the
\* Notification table has room) and sets start, end and professional while
\* the active flag stays false and every booking stays as it was.
C28_ActiveFlagIsMonotone == [][FlagStaysDown]_vars /\ []UpdateOfInactiveSlot

\* an inactive slot that has a booking was just updated: it belongs to the
\* professional the update named and is still inactive
C28_Witness ==
    /\ resp.op = "updateSchedule"
    /\ resp.updated
    /\ ~slots[resp.scheduleId].isActive
    /\ SlotBookings(resp.scheduleId) # {}
    /\ slots[resp.scheduleId].professionalId = resp.notification.userId

\* bookAppointment(u, p, id) answers while the Booking table has room and
\* cannot answer anything but "pending"
WouldBePending(u, p, id) ==
    /\ Len(bookings) < MaxBookings => ENABLED bookAppointment(u, p, id)
    /\ ~ENABLED (bookAppointment(u, p, id) /\ resp'.status # "pending")

\* checkAvailability for professional p alone can answer the status
Reports(p, status) ==
    ENABLED ( /\ checkAvailability(p, <<>>, <<>>, "")
              /\ resp'.error = ""
              /\ resp'.availability = status )

\* C29: in every reachable state, if a checkAvailability request naming
\* professional p (with or without the other filters) can return
\* "available", then some active slot of p is such that bookAppointment
\* with professional p on it returns "pending" in that state, for every user.
C29_AvailableImpliesBookable ==
    \A p \in ProfessionalIds, sd \in OptionalTimes, ed \in OptionalTimes,
       sp \in OptionalSpecialties :
        ENABLED ( /\ checkAvailability(p, sd, ed, sp)
                  /\ resp'.error = ""
                  /\ resp'.availability = "available" )
        => \E id \in DOMAIN slots :
              /\ slots[id].isActive
              /\ slots[id].professionalId = p
              /\ \A u \in Users : WouldBePending(u, p, id)

\* checkAvailability just returned "available" for a professional with an
\* unbooked slot, while the only active slot of another professional has a
\* PENDING booking: for that one the answer is "busy" and a booking on the
\* slot would still be "pending"
C29_Witness ==
    /\ resp.op = "checkAvailability"
    /\ resp.error = ""
    /\ resp.availability = "available"
    /\ \E p \in Professionals, q \in Professionals, i \in DOMAIN slots, j \in DOMAIN slots :
          /\ p # q
          /\ ActiveSlotsOf(p) = {i} /\ ActiveSlotsOf(q) = {j}
          /\ SlotBookings(i) = {}
          /\ Reports(p, "available")
          /\ SlotBookings(j) # {}
          /\ \A b \in SlotBookings(j) : bookings[b].status = "PENDING"
          /\ Reports(q, "busy")
          /\ \A u \in Users : ENABLED (bookAppointment(u, q, j) /\ resp'.status = "pending")

\* the row Notification.prisma().create writes for a cancelled booking b of
\* the slot the request read
CancellationNotice(c, b) ==
    NewNotification(bookings[b].userId, CancelledMessage(inflight[c].slot.startTime))

\* handler c's deleteSchedule has read the slot's bookings and not returned
InLoop(c) ==
    inflight[c].pc \in {"update_booking", "create_notification", "update_slot"}

\* C22: within one deleteSchedule request, a booking's notification is
\* created only when that booking has been set to CANCELLED; while bookings
\* read for the slot are still to be cancelled or notified the slot's flag
\* is the one the request found; the slot is marked inactive only when every
\* booking read is CANCELLED and has its notification; and success is
\* returned only by the step that leaves the slot inactive.
C22_DeleteOrder ==
    [][\A c \in Handlers :
          /\ ( InLoop(c) /\ notifications' # notifications )
             => /\ inflight[c].pc = "create_notification"
                /\ bookings[Head(inflight[c].todo)].status = "CANCELLED"
                /\ Head(inflight[c].todo) \in inflight[c].cancelled
                /\ Head(inflight[c].todo) \notin inflight[c].notified
                /\ notifications' = Append(notifications,
                       CancellationNotice(c, Head(inflight[c].todo)))
          /\ ( InLoop(c) /\ inflight[c].todo # <<>> )
             => /\ slots' = slots
                /\ slots[inflight[c].scheduleId].isActive = inflight[c].slot.isActive
                /\ inflight'[c].pc # "done"
          /\ ( InLoop(c) /\ slots' # slots )
             => /\ inflight[c].pc = "update_slot"
                /\ inflight[c].todo = <<>>
                /\ \A b \in inflight[c].found :
                      /\ bookings[b].status = "CANCELLED"
                      /\ b \in inflight[c].notified
                      /\ \E n \in DOMAIN notifications :
                            notifications[n] = CancellationNotice(c, b)
          /\ ( inflight'[c] # inflight[c] /\ inflight'[c].pc = "done"
               /\ inflight'[c].result.success )
             => /\ inflight[c].pc = "update_slot"
                /\ ~slots'[inflight[c].scheduleId].isActive]_vars

\* a deleteSchedule that read two bookings of an active slot has cancelled
\* and notified both and is about to mark the slot inactive
C22_Witness ==
    \E c \in Handlers :
        /\ inflight[c].pc = "update_slot"
        /\ Cardinality(inflight[c].found) = 2
        /\ inflight[c].notified = inflight[c].found
        /\ slots[inflight[c].scheduleId].isActive
        /\ \A b \in inflight[c].found : bookings[b].status = "CANCELLED"

\* the id of the slot handler c's createSchedule has written, 0 for none
WrittenSlot(c) ==
    IF inflight[c].pc = "notify_professional" THEN inflight[c].schedule_id
    ELSE IF inflight[c].pc = "done" /\ inflight[c].result.error = ""
    THEN inflight[c].result.scheduleId
    ELSE 0

\* slots i and j are of one professional and their closed intervals overlap
OverlappingSlots(i, j) ==
    /\ slots[i].professionalId = slots[j].professionalId
    /\ ClosedOverlap(slots[i].startTime, slots[i].endTime,
                     slots[j].startTime, slots[j].endTime)

\* C21: a createSchedule request that found no overlap writes its slot
\* whatever the Slot table holds by then; a request whose overlap query runs
\* when an overlapping slot of its professional is in the table cannot end
\* in anything but the conflict error, writing nothing; so two requests
\* leave overlapping slots of one professional only when the later writer's
\* overlap query ran before the earlier slot was written.
C21_CreateRace ==
    /\ \A c \in Handlers :
          inflight[c].pc = "create_slot"
          => /\ Len(slots) < MaxSlots => ENABLED createSchedule_create_slot(c)
             /\ ~ENABLED ( /\ createSchedule_create_slot(c)
                           /\ ~( /\ slots' = Append(slots,
                                        [professionalId |-> inflight[c].professionalId,
                                         startTime |-> inflight[c].startTime,
                                         endTime |-> inflight[c].endTime,
                                         isActive |-> inflight[c].isActive])
                                 /\ inflight'[c].pc = "notify_professional"
                                 /\ inflight'[c].schedule_id = Len(slots') ) )
    /\ \A c \in Handlers :
          ( /\ inflight[c].pc = "find_slots"
            /\ \E i \in DOMAIN slots :
                  /\ slots[i].professionalId = inflight[c].professionalId
                  /\ ClosedOverlap(slots[i].startTime, slots[i].endTime,
                                   inflight[c].startTime, inflight[c].endTime) )
          => /\ ENABLED createSchedule_find_slots(c)
             /\ ~ENABLED ( /\ createSchedule_find_slots(c)
                           /\ ~( /\ inflight'[c].pc = "done"
                                 /\ inflight'[c].result.error =
                                        "This time slot conflicts with an existing schedule."
                                 /\ slots' = slots ) )
    /\ \A c \in Handlers, d \in Handlers :
          ( /\ 0 < WrittenSlot(d) /\ WrittenSlot(d) < WrittenSlot(c)
            /\ OverlappingSlots(WrittenSlot(d), WrittenSlot(c)) )
          => inflight[c].rows_at_query < WrittenSlot(d)

\* two requests for one professional and the same window both returned a
\* created schedule; both slots are in the table
C21_Witness ==
    \E c \in Handlers, d \in Handlers :
        /\ inflight[c].pc = "done" /\ inflight[d].pc = "done"
        /\ inflight[c].result.error = "" /\ inflight[d].result.error = ""
        /\ inflight[d].result.scheduleId = 1 /\ inflight[c].result.scheduleId = 2
        /\ slots[1].professionalId = slots[2].professionalId
        /\ slots[1].startTime = 0 /\ slots[1].endTime = 1
        /\ slots[2].startTime = 0 /\ slots[2].endTime = 1

\* handler c's createSchedule ended in a store failure after its slot was
\* written
FailedAfterSlot(c) == inflight[c].pc = "failed" /\ inflight[c].schedule_id # 0

\* C30: a store failure of createSchedule's notification create writes
\* nothing and takes nothing back: the caller gets an error with none of
\* the response's fields, the slot the request wrote is in the table with
\* the request's fields, and every later createSchedule for that
\* professional whose closed interval overlaps it cannot end in anything
\* but the conflict error; and every response createSchedule returns, from
\* a request run in one step or call by call, has wasNotificationSent true.
C30_SlotOutlivesFailedNotification ==
    /\ \A c \in Handlers :
          inflight[c].pc = "notify_professional"
          => /\ ENABLED createSchedule_raise(c)
             /\ ~ENABLED ( /\ createSchedule_raise(c)
                           /\ ~( /\ slots' = slots
                                 /\ notifications' = notifications
                                 /\ inflight'[c].pc = "failed"
                                 /\ inflight'[c].schedule_id = inflight[c].schedule_id ) )
    /\ \A c \in Handlers :
          FailedAfterSlot(c)
          => /\ inflight[c].result.error # ""
             /\ "wasNotificationSent" \notin DOMAIN inflight[c].result
             /\ inflight[c].schedule_id \in DOMAIN slots
             /\ slots[inflight[c].schedule_id] =
                    [professionalId |-> inflight[c].professionalId,
                     startTime |-> inflight[c].startTime, endTime |-> inflight[c].endTime,
                     isActive |-> inflight[c].isActive]
             /\ \A s \in Times, e \in Times, a \in Activities, act \in BOOLEAN :
                   ClosedOverlap(inflight[c].startTime, inflight[c].endTime, s, e)
                   => /\ ENABLED createSchedule(inflight[c].professionalId, s, e, a, act)
                      /\ ~ENABLED ( /\ createSchedule(inflight[c].professionalId, s, e, a, act)
                                    /\ ~( /\ resp'.error =
                                               "This time slot conflicts with an existing schedule."
                                          /\ slots' = slots ) )
    /\ ( resp.op = "createSchedule" /\ resp.error = "" ) => resp.wasNotificationSent
    /\ \A c \in Handlers :
          ( /\ inflight[c].pc = "done"
            /\ inflight[c].result.op = "createSchedule"
            /\ inflight[c].result.error = "" )
          => inflight[c].result.wasNotificationSent

\* a createSchedule failed at its notification create: its slot is the only
\* row of the Slot table, no notification was written, the caller got an
\* error, and a later createSchedule was refused with the conflict error
C30_Witness ==
    \E c \in Handlers :
        /\ FailedAfterSlot(c)
        /\ inflight[c].result.error # ""
        /\ Len(slots) = 1 /\ inflight[c].schedule_id = 1
        /\ notifications = <<>>
        /\ resp.error = "This time slot conflicts with an existing schedule."

\* booking b was written by a bookAppointment request, run call by call,
\* whose create came when a deleteSchedule had read the slot's bookings
WrittenAfterDeleteRead(b) ==
    \E c \in Handlers :
        /\ inflight[c].pc = "done"
        /\ inflight[c].result.op = "bookAppointment"
        /\ inflight[c].result.bookingId = b
        /\ inflight[c].deleted_at_create

====
